---- MODULE Spec2Model ----
(***************************************************************************)
(* SopVideoExchange: the task state machine (TaskWorkerImpl, TaskService-  *)
(* Impl, UploadServiceImpl), the record store behind it (HAPClient) and    *)
(* the temp workspace of the composition service (FFmpegService).          *)
(*                                                                         *)
(* Every "await" of the source is one step of the model: two calls that    *)
(* run concurrently (two HTTP requests, or a request and the cron handler) *)
(* interleave at their awaits.  Every call to the record store, to an      *)
(* upstream service or to the file system either returns or throws.        *)
(***************************************************************************)
EXTENDS Integers, Sequences, FiniteSets, TLC

\* ---------------------------------------------------------------- bounds
MaxTasks == 2
MaxWorkers == 2
MaxFaults == 2
MaxRetryCount == 4
MaxRetryObs == 4
MaxCalls == 2
MaxClip == 5
MaxTarget == 1
MaxSegs == 2
MaxTime == 3
MaxWithheld == 3
MaxAsmSegs == 3
MaxStart == 12
MaxClipFrames == 2
MaxEntries == 2
MaxDirs == 12

\* ------------------------------------------------------ program constants
\* Task.canRetry: retryCount < 3
RetryLimit == 3

Tasks == 1..MaxTasks
Workers == 1..MaxWorkers

\* TaskStatus (a string enum: the stored value is the member's value; the
\* members' values are written here in English)
PENDING == "pending"
RUNNING == "running"
SUCCESS == "success"
FAILED == "failed"
TaskStatus == {PENDING, RUNNING, SUCCESS, FAILED}

\* StatusTransition.transitions
transitions == [s \in TaskStatus |->
    CASE s = PENDING -> {RUNNING, FAILED}
      [] s = RUNNING -> {SUCCESS, FAILED}
      [] s = SUCCESS -> {}
      [] s = FAILED  -> {PENDING}]

canTransition(from, to) == to \in transitions[from]

NoError == "none"
NoTask == 0

VARIABLES
    rows,           \* the worksheet rows of the record store, by task id
    retryCountOf,   \* the retryCount of the TaskData a Task is built from
    pc,             \* each worker's position in processTask
    kind,           \* what a worker runs: "none", "api" (POST /tasks/id), "cron"
    taskId,         \* the taskId argument of the worker's processTask call
    task,           \* the Task object processTask fetched
    queue,          \* processAllPendingTasks: the tasks still to attempt
    result,         \* processAllPendingTasks: {success, failed}
    error,          \* the error in flight in processTask's catch block
    trace,          \* history: the steps this run has started, in order
    completed,      \* history: the steps of this run that returned
    failedStage,    \* history: the step of this run that threw
    wrote,          \* history: the statuses this run has written to the store
    dirs,           \* temp directories the FFmpegService call just made created and left
    rpc, rtask, rres,   \* TaskServiceImpl.retryTask: position, argument, outcome
    upc, utask,         \* UploadServiceImpl.uploadVideo: position, created task
    retries,        \* history: the task last retried and its accepted retries in a row
    calls,          \* history: the calls made so far (requests, cron runs)
    run,            \* one processTask run with the data its steps hand on
    asm,            \* the master track being assembled
    file,           \* the file handed to uploadVideo
    srt,            \* the subtitle entries handed to toSRT and the text it returned
    fs              \* the temp workspace of concurrent FFmpegService calls


vars == <<rows, retryCountOf, pc, kind, taskId, task, queue, result, error,
          trace, completed, failedStage, wrote, dirs, rpc, rtask, rres,
          upc, utask, retries, calls, run, asm, file, srt, fs>>

workerVars == <<pc, kind, taskId, task, queue, result, error, trace, completed,
                failedStage, wrote, dirs>>
retryVars == <<rpc, rtask, rres>>
uploadVars == <<upc, utask>>
dataVars == <<run, asm, file, srt, fs>>
taskVars == <<rows, retryCountOf, workerVars, retryVars, uploadVars, retries, calls>>

\* ------------------------------------------------------------ data values
\* the locals of a processTask run that has not started
NoRun == [pc |-> "idle", status |-> PENDING, subtitles |-> <<>>, clip |-> 0,
          target |-> 0, track |-> [num |-> 0, den |-> 1], error |-> NoError, primary |-> NoError,
          failedStage |-> NoError, withheld |-> 0, attempts |-> 0, tool |-> <<>>]

NoFormat == [sampleRate |-> 0, bitDepth |-> 0, channels |-> 0]
NoAsm == [pc |-> "idle", writeCursor |-> 0, bufferLength |-> 0, format |-> NoFormat,
          lastStart |-> 0, segments |-> 0, padded |-> 0, error |-> NoError]

NoSrt == [pc |-> "idle"]
NoFs == [pc |-> "idle"]

\* a file as the upload handler passes it: strings are sequences of
\* characters, an absent mimeType is the empty string, an absent size is 0
DefaultFile == [name |-> <<"a", ".", "m", "p", "4">>, size |-> 1,
                mimeType |-> <<"v", "i", "d", "e", "o", "/", "m", "p", "4">>]

\* ---------------------------------------------------------- record store
NoRow == [exists |-> FALSE, status |-> PENDING, original_video |-> FALSE,
          output_video |-> FALSE]

\* HAPClient.createTask as TaskServiceImpl.createTask calls it: title and
\* status only, no original_video field
createTaskRow == [exists |-> TRUE, status |-> PENDING, original_video |-> FALSE,
          output_video |-> FALSE]

NullTask == [found |-> FALSE, status |-> PENDING, originalVideo |-> FALSE,
             errorMessage |-> NoError, retryCount |-> 0]

\* HAPClient.parseRowToTask: status and the file fields are read from the row;
\* errorMessage is never passed to the Task constructor, retryCount comes from
\* the TaskData (data.retryCount || 0)
parseRowToTask(row, rc) ==
    [found |-> TRUE, status |-> row.status, originalVideo |-> row.original_video,
     errorMessage |-> NoError, retryCount |-> rc]

\* HAPClient.getTask: any failure of the request or of parsing the row
\* (fetched = FALSE) is caught and gives null
getTask(id, fetched) ==
    IF fetched /\ rows[id].exists THEN parseRowToTask(rows[id], retryCountOf[id])
    ELSE NullTask

\* HAPClient.updateTask with {status}: only the status field is patched
updateTaskStatus(id, status) ==
    [rows EXCEPT ![id].status = status]

\* HAPClient.getTasks({status: PENDING, sortBy: createdAt, asc})
RECURSIVE pendingFrom(_)
pendingFrom(i) ==
    IF i > MaxTasks THEN <<>>
    ELSE IF rows[i].exists /\ rows[i].status = PENDING
         THEN <<i>> \o pendingFrom(i + 1)
         ELSE pendingFrom(i + 1)
getTasks == pendingFrom(1)

\* ---------------------------------------------------------------- Task
\* (an isPending that also lets Failed tasks through)
isPendingOrFailed(t) == t.status \in {PENDING, FAILED}
isPending(t) == t.status = PENDING
\* (a canRetry whose comparison is off by one)
canRetryInclusive(t) == t.status = FAILED /\ t.retryCount <= RetryLimit
canRetry(t) == t.status = FAILED /\ t.retryCount < RetryLimit

\* ------------------------------------------------------- FFmpegService
\* The outcome of a call: ok (returned) or not (threw err); left, the temp
\* directories the call created that still exist when it returns or throws;
\* tool, the invocations of external tools (ffmpeg, ffprobe) the call made, in
\* order; primary (history), the first error thrown by anything but a
\* cleanup, NoError when nothing but cleanups threw.
\* F is the set of primitive operations (mkdtemp, HTTP GET, ffmpeg, ffprobe,
\* readdir/unlink/rmdir) that fail during the call.
Returned(leftDirs) ==
    [ok |-> TRUE, err |-> NoError, left |-> leftDirs, primary |-> NoError, tool |-> <<>>]
Threw(e, leftDirs) ==
    [ok |-> FALSE, err |-> e, left |-> leftDirs, primary |-> e, tool |-> <<>>]

\* one primitive operation that creates no directory; the error it throws
\* carries a message of the operation's kind
prim(name, message, F) == IF name \in F THEN Threw(message, {}) ELSE Returned({})

\* a; b  (b runs only when a returned); each outcome is worked out once
andThen(a, b) ==
    CHOOSE r \in UNION {IF x.ok
                        THEN {[ok |-> y.ok, err |-> y.err, left |-> x.left \cup y.left,
                               primary |-> y.primary, tool |-> x.tool \o y.tool] : y \in {b}}
                        ELSE {x} : x \in {a}} : TRUE

\* path.join(dir, base); mkdtemp(path.join(this.tempDir, 'ffmpeg-')) with
\* this.tempDir = TEMP_DIR || '/tmp' is an absolute directory
join(dir, base) == [dir |-> dir, base |-> base]
tempDirOf(dir) ==
    CASE dir = "adjust" -> "/tmp/ffmpeg-adjust"
      [] dir = "combine" -> "/tmp/ffmpeg-combine"
      [] dir = "mix" -> "/tmp/ffmpeg-mix"
      [] dir = "info" -> "/tmp/ffmpeg-info"

\* speed ratios are exact fractions num/den
NoRatio == [num |-> 0, den |-> 1]
ratio(n, d) == [num |-> n, den |-> d]

\* an invocation of an external tool through fluent-ffmpeg: the process is
\* spawned without a cwd option, so it runs in the server's working directory
invoke(name, q, paths, r) ==
    [r EXCEPT !.tool = <<[name |-> name, ratio |-> q, cwd |-> "process.cwd", paths |-> paths]>>]

\* createTempDir: mkdtemp makes a fresh directory, named here by its creator
createTempDir(dir, F) ==
    LET mkdtempOf == CASE dir = "adjust" -> "adjust.mkdtemp"
                       [] dir = "adjust.download" -> "adjust.download.mkdtemp"
                       [] dir = "combine" -> "combine.mkdtemp"
                       [] dir = "combine.download" -> "combine.download.mkdtemp"
                       [] dir = "mix" -> "mix.mkdtemp"
                       [] dir = "mix.video" -> "mix.video.mkdtemp"
                       [] dir = "mix.audio" -> "mix.audio.mkdtemp"
                       [] dir = "info" -> "info.mkdtemp"
                       [] dir = "info.download" -> "info.download.mkdtemp"
    IN
    IF mkdtempOf \in F THEN Threw("mkdtemp failed", {}) ELSE Returned({dir})

\* cleanupTempDir: readdir, unlink each file, rmdir; when any of them throws
\* the directory stays
cleanupTempDir(dir, F) ==
    LET cleanupOf == CASE dir = "adjust" -> "adjust.cleanup"
                       [] dir = "combine" -> "combine.cleanup"
                       [] dir = "mix" -> "mix.cleanup"
                       [] dir = "info" -> "info.cleanup"
    IN
    IF cleanupOf \in F THEN Threw("cleanup failed", {dir}) ELSE Returned({})

\* try { body } finally { cleanupTempDir(dir) }: the directory is removed
\* from what body left unless the cleanup throws; an error thrown by the
\* finally block replaces the body's result
tryFinally(dir, body, F) ==
    CHOOSE r \in {IF c.ok THEN [b EXCEPT !.left = b.left \ {dir}]
                  ELSE [ok |-> FALSE, err |-> c.err, left |-> b.left \cup c.left,
                        primary |-> b.primary, tool |-> b.tool] :
                  c \in {cleanupTempDir(dir, F)}, b \in {body}} : TRUE

\* downloadFile: creates a temp directory of its own, which nothing removes,
\* then GETs the url and writes the file
downloadFile(dir, F) ==
    LET getOf == CASE dir = "adjust.download" -> "adjust.download.get"
                   [] dir = "combine.download" -> "combine.download.get"
                   [] dir = "mix.video" -> "mix.video.get"
                   [] dir = "mix.audio" -> "mix.audio.get"
                   [] dir = "info.download" -> "info.download.get"
    IN  andThen(createTempDir(dir, F), prim(getOf, "download failed", F))

\* mkdtemp of the call's own directory, then the try/finally around the body
scoped(dir, body, F) ==
    LET mk == createTempDir(dir, F) IN
    IF mk.ok THEN tryFinally(dir, andThen(mk, body), F) ELSE mk

\* the comparisons of adjustAudioSpeed on speedRatio = num/den as JavaScript
\* numbers: x/0 is Infinity for x > 0 and NaN for x = 0 (NaN compares false)
geHalf(q) ==
    IF q.den > 0 THEN 2 * q.num >= q.den
    ELSE IF q.den < 0 THEN 2 * q.num <= q.den
    ELSE q.num > 0
leTwo(q) ==
    IF q.den > 0 THEN q.num <= 2 * q.den
    ELSE IF q.den < 0 THEN q.num >= 2 * q.den
    ELSE FALSE
gtTwo(q) ==
    IF q.den > 0 THEN q.num > 2 * q.den
    ELSE IF q.den < 0 THEN q.num < 2 * q.den
    ELSE q.num > 0

\* "FFmpeg only supports the 0.5-2.0 range": what the atempo filter accepts
InRange(q) == geHalf(q) /\ leTwo(q)

\* the ratios adjustAudioSpeed hands to adjustSpeedSingle, in order
speedStages(originalDuration, targetDuration) ==
    LET speedRatio == ratio(originalDuration, targetDuration) IN
    IF geHalf(speedRatio) /\ leTwo(speedRatio) THEN <<speedRatio>>
    ELSE IF gtTwo(speedRatio)
         THEN <<ratio(2, 1), ratio(speedRatio.num, 2 * speedRatio.den)>>
         ELSE <<ratio(1, 2), ratio(2 * speedRatio.num, speedRatio.den)>>

\* adjustSpeedSingle: one ffmpeg run with -atempo; it fails when the run
\* fails, and ffmpeg refuses a ratio outside what atempo accepts
adjustSpeedSingle(inputPath, outputPath, speedRatio, F) ==
    invoke("ffmpeg", speedRatio, <<inputPath, outputPath>>,
           IF "adjust.atempo" \in F THEN Threw("ffmpeg failed", {})
           ELSE IF ~InRange(speedRatio) THEN Threw("ffmpeg failed: tempo out of range", {})
           ELSE Returned({}))

adjustAudioSpeed(originalDuration, targetDuration, F) ==
    LET tempDir == tempDirOf("adjust")
        inputPath == join(tempDir, "input.wav")
        outputPath == join(tempDir, "output.wav")
        intermediatePath == join(tempDir, "intermediate.wav")
        stages == speedStages(originalDuration, targetDuration)
    IN  scoped("adjust",
           andThen(downloadFile("adjust.download", F),
           andThen(invoke("ffprobe", NoRatio, <<inputPath>>,
                          prim("adjust.ffprobe", "ffprobe failed", F)),
                   IF Len(stages) = 1
                   THEN adjustSpeedSingle(inputPath, outputPath, stages[1], F)
                   ELSE andThen(adjustSpeedSingle(inputPath, intermediatePath, stages[1], F),
                                adjustSpeedSingle(intermediatePath, outputPath, stages[2], F)))),
           F)

mixAudio(videoUrl, F) ==
    LET tempDir == tempDirOf("mix")
        videoPath == join(tempDir, "video.mp4")
        audioPath == join(tempDir, "audio.wav")
        outputPath == join(tempDir, "mixed.mp4")
    IN  scoped("mix",
           andThen(downloadFile("mix.video", F),
           andThen(downloadFile("mix.audio", F),
                   invoke("ffmpeg", NoRatio, <<videoPath, audioPath, outputPath>>,
                          prim("mix.amix", "ffmpeg failed", F)))), F)

getVideoInfo(videoUrl, F) ==
    LET videoPath == join(tempDirOf("info"), "video.mp4")
    IN  scoped("info",
           andThen(downloadFile("info.download", F),
                   invoke("ffprobe", NoRatio, <<videoPath>>,
                          prim("info.ffprobe", "ffprobe failed", F))), F)

\* burnSubtitlesToVideo: ffmpeg(inputPath).input(srtPath) ... subtitles(srtPath)
\* .output(outputPath); srtPath also goes into the filter argument
burnSubtitlesToVideo(inputPath, srtPath, outputPath, F) ==
    invoke("ffmpeg", NoRatio, <<inputPath, srtPath, outputPath>>,
           prim("combine.burn", "ffmpeg failed", F))

\* combine with one subtitle and an audio option, as processTask calls it
combine(F) ==
    LET tempDir == tempDirOf("combine")
        tempVideoPath == join(tempDir, "input.mp4")
        tempSrtPath == join(tempDir, "subtitles.srt")
        outputPath == join(tempDir, "output.mp4")
    IN  scoped("combine",
           andThen(downloadFile("combine.download", F),
           andThen(prim("combine.writeSrt", "write failed", F),
           andThen(burnSubtitlesToVideo(tempVideoPath, tempSrtPath, outputPath, F),
           andThen(mixAudio(outputPath, F), getVideoInfo(outputPath, F))))), F)

AdjustPrims == {"adjust.mkdtemp", "adjust.download.mkdtemp", "adjust.download.get",
                "adjust.ffprobe", "adjust.atempo", "adjust.cleanup"}
CombinePrims == {"combine.mkdtemp", "combine.download.mkdtemp", "combine.download.get",
                 "combine.writeSrt", "combine.burn", "combine.cleanup",
                 "mix.mkdtemp", "mix.video.mkdtemp", "mix.video.get",
                 "mix.audio.mkdtemp", "mix.audio.get", "mix.amix", "mix.cleanup",
                 "info.mkdtemp", "info.download.mkdtemp", "info.download.get",
                 "info.ffprobe", "info.cleanup"}

\* the sets of at most k failing primitives
RECURSIVE FaultSets(_, _)
FaultSets(P, k) ==
    IF k = 0 THEN {{}}
    ELSE LET S == FaultSets(P, k - 1) IN S \cup {s \cup {p} : s \in S, p \in P}

\* ------------------------------------------------- TaskWorkerImpl.processTask
\* (an order with synthesis before translation)
nextStepSwapped(s) ==
    CASE s = "markRunning" -> "asr"
      [] s = "asr"         -> "tts"
      [] s = "tts"         -> "translate"
      [] s = "translate"   -> "align"
      [] s = "align"       -> "compose"
      [] s = "compose"     -> "markSuccess"
\* the order of the awaited steps inside the try block
nextStep(s) ==
    CASE s = "markRunning" -> "asr"
      [] s = "asr"         -> "translate"
      [] s = "translate"   -> "tts"
      [] s = "tts"         -> "align"
      [] s = "align"       -> "compose"
      [] s = "compose"     -> "markSuccess"

\* where control goes when a step inside the try block throws: the catch block
onThrow(s) == "markFailed"

Ended == {"returned", "threw"}

\* a step returned: the next awaited step starts
stepReturns(w, s) ==
    /\ pc' = [pc EXCEPT ![w] = nextStep(s)]
    /\ trace' = [trace EXCEPT ![w] = Append(@, nextStep(s))]
    /\ completed' = [completed EXCEPT ![w] = @ \cup {s}]
    /\ UNCHANGED <<error, failedStage>>

\* a step threw e: control goes to the catch block
stepThrows(w, s, e) ==
    /\ pc' = [pc EXCEPT ![w] = onThrow(s)]
    /\ trace' = [trace EXCEPT ![w] = Append(@, onThrow(s))]
    /\ error' = [error EXCEPT ![w] = e]
    /\ failedStage' = [failedStage EXCEPT ![w] = s]

\* the history of a processTask call, cleared when the call is over
clearRun(w) ==
    /\ task' = [task EXCEPT ![w] = NullTask]
    /\ error' = [error EXCEPT ![w] = NoError]
    /\ trace' = [trace EXCEPT ![w] = <<>>]
    /\ completed' = [completed EXCEPT ![w] = {}]
    /\ failedStage' = [failedStage EXCEPT ![w] = NoError]
    /\ wrote' = [wrote EXCEPT ![w] = <<>>]
    /\ dirs' = [dirs EXCEPT ![w] = {}]

\* POST /api/tasks/[id] (the "retry" request): calls processTask(id)
ApiRetryTask(w, id) ==
    /\ pc[w] = "idle"
    /\ pc' = [pc EXCEPT ![w] = "getTask"]
    /\ kind' = [kind EXCEPT ![w] = "api"]
    /\ taskId' = [taskId EXCEPT ![w] = id]
    /\ UNCHANGED <<dataVars, rows, retryCountOf, task, queue, result, error, trace, completed,
                   failedStage, wrote, dirs, retryVars, uploadVars, retries>>

\* processTask up to the try block: getTask, "not found", "not pending"
ProcessTaskGet(w) ==
    /\ pc[w] = "getTask"
    /\ \E fetched \in BOOLEAN :
         LET t == getTask(taskId[w], fetched) IN
         /\ task' = [task EXCEPT ![w] = t]
         /\ IF ~t.found
            THEN /\ pc' = [pc EXCEPT ![w] = "threw"]
                 /\ error' = [error EXCEPT ![w] = "Task not found"]
                 /\ UNCHANGED trace
            ELSE IF ~isPending(t)
            THEN /\ pc' = [pc EXCEPT ![w] = "returned"]
                 /\ UNCHANGED <<error, trace>>
            ELSE /\ pc' = [pc EXCEPT ![w] = "markRunning"]
                 /\ trace' = [trace EXCEPT ![w] = <<"markRunning">>]
                 /\ UNCHANGED error
    /\ UNCHANGED <<dataVars, rows, retryCountOf, kind, taskId, queue, result, completed,
                   failedStage, wrote, dirs, retryVars, uploadVars, retries, calls>>

\* Step 1, markTaskAsRunning, then the check of task.originalVideo
MarkTaskAsRunning(w) ==
    /\ pc[w] = "markRunning"
    /\ \E ok \in BOOLEAN :
         IF ok
         THEN /\ rows' = updateTaskStatus(taskId[w], RUNNING)
              /\ wrote' = [wrote EXCEPT ![w] = Append(@, RUNNING)]
              /\ IF task[w].originalVideo
                 THEN stepReturns(w, "markRunning")
                 ELSE /\ stepThrows(w, "checkVideo", "Task has no original video")
                      /\ completed' = [completed EXCEPT ![w] = @ \cup {"markRunning"}]
         ELSE /\ stepThrows(w, "markRunning", "Failed to update task in HAP")
              /\ UNCHANGED <<rows, wrote, completed>>
    /\ dirs' = [dirs EXCEPT ![w] = {}]
    /\ UNCHANGED <<dataVars, retryCountOf, kind, taskId, task, queue, result,
                   retryVars, uploadVars, retries, calls>>

\* the error an upstream stage throws
stageError(s) ==
    CASE s = "asr" -> "asr failed"
      [] s = "translate" -> "translate failed"
      [] s = "tts" -> "tts failed"

\* asrService.transcribe, translatorService.translate, ttsService.synthesizeSubtitles
UpstreamStage(w, s) ==
    /\ pc[w] = s
    /\ \E ok \in BOOLEAN :
         IF ok THEN stepReturns(w, s)
         ELSE stepThrows(w, s, stageError(s)) /\ UNCHANGED completed
    /\ dirs' = [dirs EXCEPT ![w] = {}]
    /\ UNCHANGED <<dataVars, rows, retryCountOf, kind, taskId, task, queue, result, wrote,
                   retryVars, uploadVars, retries, calls>>

\* ffmpegService.adjustAudioSpeed / ffmpegService.combine
FFmpegStage(w, s, r) ==
    /\ pc[w] = s
    /\ dirs' = [dirs EXCEPT ![w] = r.left]
    /\ IF r.ok THEN stepReturns(w, s)
       ELSE stepThrows(w, s, r.err) /\ UNCHANGED completed
    /\ UNCHANGED <<dataVars, rows, retryCountOf, kind, taskId, task, queue, result, wrote,
                   retryVars, uploadVars, retries, calls>>

AlignStage(w) ==
    /\ pc[w] = "align"
    /\ \E F \in FaultSets(AdjustPrims, MaxFaults), d \in 1..MaxClip, t \in 1..MaxTarget :
        \E r \in {adjustAudioSpeed(d, t, F)} : FFmpegStage(w, "align", r)

ComposeStage(w) ==
    /\ pc[w] = "compose"
    /\ \E F \in FaultSets(CombinePrims, MaxFaults) :
          \E r \in {combine(F)} : FFmpegStage(w, "compose", r)

\* Step 8, markTaskAsSuccess
MarkTaskAsSuccess(w) ==
    /\ pc[w] = "markSuccess"
    /\ \E ok \in BOOLEAN :
         IF ok
         THEN /\ rows' = updateTaskStatus(taskId[w], SUCCESS)
              /\ wrote' = [wrote EXCEPT ![w] = Append(@, SUCCESS)]
              /\ pc' = [pc EXCEPT ![w] = "returned"]
              /\ completed' = [completed EXCEPT ![w] = @ \cup {"markSuccess"}]
              /\ UNCHANGED <<error, trace, failedStage>>
         ELSE /\ stepThrows(w, "markSuccess", "Failed to update task in HAP")
              /\ UNCHANGED <<rows, wrote, completed>>
    /\ dirs' = [dirs EXCEPT ![w] = {}]
    /\ UNCHANGED <<dataVars, retryCountOf, kind, taskId, task, queue, result,
                   retryVars, uploadVars, retries, calls>>

\* the catch block: markTaskAsFailed(taskId, error.message) logs the message
\* and writes the status; then the error is rethrown.  When the write throws,
\* that error leaves processTask instead.
MarkTaskAsFailed(w) ==
    /\ pc[w] = "markFailed"
    /\ pc' = [pc EXCEPT ![w] = "threw"]
    /\ \E ok \in BOOLEAN :
         IF ok
         THEN /\ rows' = updateTaskStatus(taskId[w], FAILED)
              /\ wrote' = [wrote EXCEPT ![w] = Append(@, FAILED)]
              /\ UNCHANGED error
         ELSE /\ error' = [error EXCEPT ![w] = "Failed to update task in HAP"]
              /\ UNCHANGED <<rows, wrote>>
    /\ dirs' = [dirs EXCEPT ![w] = {}]
    /\ UNCHANGED <<dataVars, retryCountOf, kind, taskId, task, queue, result, trace, completed,
                   failedStage, retryVars, uploadVars, retries, calls>>

\* the handler of POST /api/tasks/[id] answers 200 or 500
ApiRespond(w) ==
    /\ kind[w] = "api"
    /\ pc[w] \in Ended
    /\ pc' = [pc EXCEPT ![w] = "idle"]
    /\ kind' = [kind EXCEPT ![w] = "none"]
    /\ taskId' = [taskId EXCEPT ![w] = NoTask]
    /\ clearRun(w)
    /\ UNCHANGED <<dataVars, rows, retryCountOf, queue, result, retryVars, uploadVars,
                   retries, calls>>

\* ---------------------------------- TaskWorkerImpl.processAllPendingTasks
\* the cron handler: getTasks, then processTask for the first listed task
ProcessAllPendingTasks(w) ==
    /\ pc[w] = "idle"
    /\ getTasks # <<>>
    /\ pc' = [pc EXCEPT ![w] = "getTask"]
    /\ kind' = [kind EXCEPT ![w] = "cron"]
    /\ taskId' = [taskId EXCEPT ![w] = Head(getTasks)]
    /\ queue' = [queue EXCEPT ![w] = Tail(getTasks)]
    /\ result' = [result EXCEPT ![w] = [success |-> 0, failed |-> 0]]
    /\ UNCHANGED <<dataVars, rows, retryCountOf, task, error, trace, completed, failedStage,
                   wrote, dirs, retryVars, uploadVars, retries>>

\* the loop body after processTask: success++ when it returned, failed++ when
\* it threw; then the next listed task, or the result is returned
ProcessNextPending(w) ==
    /\ kind[w] = "cron"
    /\ pc[w] \in Ended
    /\ result' = [result EXCEPT ![w] =
                    IF pc[w] = "returned" THEN [@ EXCEPT !.success = @ + 1]
                    ELSE [@ EXCEPT !.failed = @ + 1]]
    /\ IF queue[w] = <<>>
       THEN /\ pc' = [pc EXCEPT ![w] = "idle"]
            /\ kind' = [kind EXCEPT ![w] = "none"]
            /\ taskId' = [taskId EXCEPT ![w] = NoTask]
            /\ UNCHANGED queue
       ELSE /\ pc' = [pc EXCEPT ![w] = "getTask"]
            /\ taskId' = [taskId EXCEPT ![w] = Head(queue[w])]
            /\ queue' = [queue EXCEPT ![w] = Tail(@)]
            /\ UNCHANGED kind
    /\ clearRun(w)
    /\ UNCHANGED <<dataVars, rows, retryCountOf, retryVars, uploadVars, retries, calls>>

\* ------------------------------------------------ TaskServiceImpl.retryTask
RetryTaskCall(id) ==
    /\ rpc = "idle"
    /\ rpc' = "getTask"
    /\ rtask' = id
    /\ rres' = "running"
    /\ UNCHANGED <<dataVars, rows, retryCountOf, workerVars, uploadVars, retries>>

\* getTask, "Task not found", the canRetry check
RetryTaskGet ==
    /\ rpc = "getTask"
    /\ \E fetched \in BOOLEAN :
         LET t == getTask(rtask, fetched) IN
         IF ~t.found
         THEN rpc' = "idle" /\ rres' = "notFound"
         ELSE IF ~canRetry(t)
         THEN rpc' = "idle" /\ rres' = "cannotRetry"
         ELSE rpc' = "update" /\ rres' = "running"
    /\ UNCHANGED <<dataVars, rows, retryCountOf, rtask, workerVars, uploadVars, retries, calls>>

\* updateTaskStatus(id, PENDING); nothing else is written
RetryTaskUpdate ==
    /\ rpc = "update"
    /\ retries.n < MaxRetryObs
    /\ rpc' = "idle"
    /\ \E ok \in BOOLEAN :
         IF ok
         THEN /\ rows' = updateTaskStatus(rtask, PENDING)
              /\ rres' = "scheduled"
              /\ retries' = IF rows[rtask].status # FAILED THEN retries
                            ELSE IF retries.task = rtask
                            THEN [retries EXCEPT !.n = @ + 1]
                            ELSE [task |-> rtask, n |-> 1]
         ELSE /\ rres' = "updateFailed"
              /\ UNCHANGED <<rows, retries>>
    /\ UNCHANGED <<dataVars, retryCountOf, rtask, workerVars, uploadVars, calls>>

\* --------------------------------------------- UploadServiceImpl.uploadVideo
\* the id the record store gives the next created row
nextId == CHOOSE i \in Tasks : ~rows[i].exists /\ \A j \in 1..(i - 1) : rows[j].exists

\* config.app: MAX_FILE_SIZE || '524288000', ALLOWED_VIDEO_TYPES ||
\* 'video/mp4,video/avi,video/mov' split at the commas
maxFileSize == 524288000
allowedVideoTypes ==
    <<<<"v", "i", "d", "e", "o", "/", "m", "p", "4">>,
      <<"v", "i", "d", "e", "o", "/", "a", "v", "i">>,
      <<"v", "i", "d", "e", "o", "/", "m", "o", "v">>>>

\* String.prototype.includes: needle occurs somewhere in hay
includes(hay, needle) ==
    \E i \in 0..(Len(hay) - Len(needle)) : SubSeq(hay, i + 1, i + Len(needle)) = needle

\* String.prototype.toLowerCase
toLowerCase(str) ==
    [i \in 1..Len(str) |->
        CASE str[i] = "A" -> "a"
          [] str[i] = "M" -> "m"
          [] str[i] = "P" -> "p"
          [] OTHER -> str[i]]

\* name.split('.').pop(): what follows the last dot, the whole name without one
RECURSIVE afterLastDot(_)
afterLastDot(name) ==
    IF \A i \in 1..Len(name) : name[i] # "." THEN name
    ELSE afterLastDot(Tail(name))

getMimeTypeFromExtension(extension) ==
    CASE extension = <<"m", "p", "4">> -> <<"v", "i", "d", "e", "o", "/", "m", "p", "4">>
      [] extension = <<"a", "v", "i">> -> <<"v", "i", "d", "e", "o", "/", "a", "v", "i">>
      [] extension = <<"m", "o", "v">> -> <<"v", "i", "d", "e", "o", "/", "q", "u", "i", "c", "k", "t", "i", "m", "e">>
      [] extension = <<"m", "k", "v">> -> <<"v", "i", "d", "e", "o", "/", "x", "-", "m", "a", "t", "r", "o", "s", "k", "a">>
      [] extension = <<"w", "e", "b", "m">> -> <<"v", "i", "d", "e", "o", "/", "w", "e", "b", "m">>
      [] OTHER -> <<"v", "i", "d", "e", "o", "/", "m", "p", "4">>

\* validateVideoFile: TRUE when it returns, FALSE when it throws
validateVideoFile(f) ==
    LET extension == toLowerCase(afterLastDot(f.name))
        mimeType == IF f.mimeType # <<>> THEN f.mimeType
                    ELSE getMimeTypeFromExtension(extension)
        isAllowed == \E i \in 1..Len(allowedVideoTypes) :
                        \/ includes(allowedVideoTypes[i], mimeType)
                        \/ includes(allowedVideoTypes[i], extension)
    IN  /\ f.name # <<>>
        /\ ~(f.size # 0 /\ f.size > maxFileSize)
        /\ isAllowed

\* the files a request may carry
Files ==
    [name : {<<>>, <<"a", ".", "m", "p", "4">>, <<"A", ".", "M", "P", "4">>, <<"a", ".", "m", "o", "v">>, <<"a", ".", "m", "k", "v">>,
             <<"a", ".", "e", "x", "e">>, <<"a", ".", "o">>, <<"a", ".">>, <<"a">>},
     size : {0, 1, maxFileSize, maxFileSize + 1},
     mimeType : {<<>>, <<"v", "i", "d", "e", "o", "/", "m", "p", "4">>, <<"v", "i", "d", "e", "o", "/", "w", "e", "b", "m">>,
                 <<"t", "e", "x", "t", "/", "p", "l", "a", "i", "n">>}]

\* validateVideoFile passes, createTask(title) creates the row
UploadVideoCreate ==
    /\ upc = "idle"
    /\ validateVideoFile(file)
    /\ \E i \in Tasks : ~rows[i].exists
    /\ rows' = [rows EXCEPT ![nextId] = createTaskRow]
    /\ upc' = "created"
    /\ utask' = nextId
    /\ UNCHANGED <<dataVars, retryCountOf, workerVars, retryVars, retries>>

\* validateVideoFile throws: uploadVideo rejects before createTask
UploadVideoReject ==
    /\ upc = "idle"
    /\ ~validateVideoFile(file)
    /\ upc' = "rejected"
    /\ UNCHANGED <<dataVars, rows, utask, retryCountOf, workerVars, retryVars, retries>>

\* "attach the video to the task": updateTaskStatus(taskId, PENDING)
UploadVideoUpdate ==
    /\ upc = "created"
    /\ upc' = "idle"
    /\ utask' = NoTask
    /\ \E ok \in BOOLEAN :
         IF ok THEN rows' = updateTaskStatus(utask, PENDING) ELSE UNCHANGED rows
    /\ UNCHANGED <<dataVars, retryCountOf, workerVars, retryVars, retries, calls>>

\* ------------------------------- TaskWorkerImpl.processTask, with its data
\* One run of processTask on a Pending task that has its original video,
\* with the values each step hands to the next.  The record store answers
\* every call of this run.

\* ASRService.transcribe maps every entry of the response to a subtitle as it
\* comes: any times, in any order, any number of entries
SubtitleEntry == [startTime : 0..MaxTime, endTime : 0..MaxTime]
AsrOutputs == UNION {[1..n -> SubtitleEntry] : n \in 0..MaxSegs}

\* asrResult.subtitles.reduce((acc, e) => acc + (e.endTime - e.startTime), 0)
RECURSIVE sumDurations(_)
sumDurations(subs) ==
    IF subs = <<>> THEN 0
    ELSE (Head(subs).endTime - Head(subs).startTime) + sumDurations(Tail(subs))

\* the duration of a clip of duration d after the atempo stages: d divided by
\* each ratio in turn, as a fraction
RECURSIVE stretched(_, _)
stretched(d, stages) ==
    IF stages = <<>> THEN d
    ELSE LET rest == stretched(d, Tail(stages))
         IN  ratio(rest.num * Head(stages).den, rest.den * Head(stages).num)

\* the call starts: getTask, the isPending check, markTaskAsRunning
RunStart ==
    /\ run.pc = "idle"
    /\ run' = [run EXCEPT !.pc = nextStep("markRunning"), !.status = RUNNING]
    /\ UNCHANGED <<taskVars, asm, file, srt, fs>>

\* a step of the run threw e
runThrows(s, e, p) ==
    [run EXCEPT !.pc = onThrow(s), !.error = e, !.primary = p, !.failedStage = s]

\* One call of an upstream client (ASRService.transcribe, LLMService.translate,
\* TTSService.synthesize): one axios.post inside try/catch.  The service
\* withholds its answer for the first k requests (connection reset, timeout,
\* 5xx) and answers the next one.
upstreamCall(s, k, returned) ==
    IF k = 0 THEN [returned EXCEPT !.pc = nextStep(s), !.attempts = 1]
    ELSE [runThrows(s, stageError(s), stageError(s)) EXCEPT !.withheld = k, !.attempts = 1]

RunTranscribe ==
    /\ run.pc = "asr"
    /\ \E k \in 0..MaxWithheld, subs \in AsrOutputs :
         run' = upstreamCall("asr", k, [run EXCEPT !.subtitles = subs])
    /\ UNCHANGED <<taskVars, asm, file, srt, fs>>

RunTranslate ==
    /\ run.pc = "translate"
    /\ \E k \in 0..MaxWithheld : run' = upstreamCall("translate", k, run)
    /\ UNCHANGED <<taskVars, asm, file, srt, fs>>

\* synthesizeSubtitles: the texts joined, one synthesize call, one clip
RunSynthesize ==
    /\ run.pc = "tts"
    /\ \E k \in 0..MaxWithheld, d \in 0..MaxClip :
         run' = upstreamCall("tts", k, [run EXCEPT !.clip = d])
    /\ UNCHANGED <<taskVars, asm, file, srt, fs>>

\* adjustAudioSpeed(ttsResult.audioUrl, the sum of the entries' durations)
RunAlign ==
    /\ run.pc = "align"
    /\ \E F \in FaultSets(AdjustPrims, MaxFaults) :
         LET targetDuration == sumDurations(run.subtitles)
             r == adjustAudioSpeed(run.clip, targetDuration, F)
         IN  run' = IF r.ok
                    THEN [run EXCEPT !.pc = nextStep("align"), !.target = targetDuration,
                                     !.tool = r.tool,
                                     !.track = stretched(ratio(run.clip, 1),
                                                         speedStages(run.clip, targetDuration))]
                    ELSE [runThrows("align", r.err, r.primary)
                            EXCEPT !.target = targetDuration, !.tool = r.tool]
    /\ UNCHANGED <<taskVars, asm, file, srt, fs>>

\* combine(task.originalVideo, [the bilingual subtitle], {audioUrl: alignedAudioPath})
RunCompose ==
    /\ run.pc = "compose"
    /\ \E F \in FaultSets(CombinePrims, MaxFaults) :
         LET r == combine(F)
         IN  run' = IF r.ok
                    THEN [run EXCEPT !.pc = nextStep("compose"), !.tool = r.tool]
                    ELSE [runThrows("compose", r.err, r.primary) EXCEPT !.tool = r.tool]
    /\ UNCHANGED <<taskVars, asm, file, srt, fs>>

RunMarkSuccess ==
    /\ run.pc = "markSuccess"
    /\ run' = [run EXCEPT !.pc = "returned", !.status = SUCCESS]
    /\ UNCHANGED <<taskVars, asm, file, srt, fs>>

\* the catch block: markTaskAsFailed, then the error is rethrown
RunMarkFailed ==
    /\ run.pc = "markFailed"
    /\ run' = [run EXCEPT !.pc = "threw", !.status = FAILED]
    /\ UNCHANGED <<taskVars, asm, file, srt, fs>>

\* ------------------------------------------------- AudioTimelineAssembler
\* The assembler of the master track (the PCM engine of the audio merge
\* retrospective).  Time is continuous in the assembler and discretized only
\* when bytes are emitted: it is counted here in ticks, TicksPerFrame of them
\* to one sample frame.
TicksPerFrame == 4
\* the rounding tolerance of step 2, a fraction of a frame
Epsilon == 1

Formats == {[sampleRate |-> 16000, bitDepth |-> 16, channels |-> c] : c \in {1, 2}}

\* bytesPerFrame = channels * (bitDepth / 8)
bytesPerFrame(format) == format.channels * (format.bitDepth \div 8)

\* silenceByteCount = floor(gapSeconds * sampleRate) * bytesPerFrame
silenceByteCount(gap, format) == (gap \div TicksPerFrame) * bytesPerFrame(format)

\* state: writeCursorSeconds = 0.0, buffer = empty, format = None
AssembleStart ==
    /\ asm.pc = "idle"
    /\ asm' = [asm EXCEPT !.pc = "assembling"]
    /\ UNCHANGED <<taskVars, run, file, srt, fs>>

\* steps 1 to 5 for the next segment in ascending startTime order, with its
\* aligned clip of clipFrames frames
assembleSegment(startTime, clipFrames, format) ==
    LET gap == startTime - asm.writeCursor
        fmt == IF asm.format = NoFormat THEN format ELSE asm.format
    IN  IF asm.format # NoFormat /\ format # asm.format
        THEN [asm EXCEPT !.pc = "failed", !.error = "FormatMismatchError"]
        ELSE IF gap < 0 - Epsilon
        THEN [asm EXCEPT !.pc = "failed", !.error = "TimelineOrderError", !.format = fmt]
        ELSE [asm EXCEPT
                !.format = fmt,
                !.bufferLength = @ + (IF gap > 0 THEN silenceByteCount(gap, fmt) ELSE 0)
                                   + clipFrames * bytesPerFrame(fmt),
                !.writeCursor = startTime + clipFrames * TicksPerFrame,
                !.lastStart = startTime,
                !.segments = @ + 1,
                !.padded = @ + (IF gap > 0 THEN 1 ELSE 0)]

AssembleSegment ==
    /\ asm.pc = "assembling"
    /\ asm.segments < MaxAsmSegs
    /\ \E startTime \in asm.lastStart..MaxStart, clipFrames \in 1..MaxClipFrames,
          format \in Formats :
         asm' = assembleSegment(startTime, clipFrames, format)
    /\ UNCHANGED <<taskVars, run, file, srt, fs>>

\* after the last segment the buffer and the format are the master track
AssembleFinish ==
    /\ asm.pc = "assembling"
    /\ asm.segments > 0
    /\ asm' = [asm EXCEPT !.pc = "done"]
    /\ UNCHANGED <<taskVars, run, file, srt, fs>>

\* ------------------------------------ ASRService.toSRT, LLMService.toSRT
\* Strings are sequences of characters.  Times are counted in half seconds:
\* whole and half seconds are exact as JavaScript numbers, so formatSRTTime's
\* arithmetic on them is exact.
Digits == <<"0", "1", "2", "3", "4", "5", "6", "7", "8", "9">>

\* Number.prototype.toString of a natural number
RECURSIVE toString(_)
toString(num) ==
    IF num < 10 THEN <<Digits[num + 1]>>
    ELSE toString(num \div 10) \o <<Digits[(num % 10) + 1]>>

\* String.prototype.padStart(length, '0')
RECURSIVE padStart(_, _)
padStart(str, length) ==
    IF Len(str) >= length THEN str ELSE padStart(<<"0">> \o str, length)

pad(num, length) == padStart(toString(num), length)

\* formatSRTTime(seconds) with seconds = halves / 2:
\* hours = floor(seconds / 3600), minutes = floor((seconds % 3600) / 60),
\* secs = floor(seconds % 60), ms = floor((seconds % 1) * 1000)
formatSRTTime(halves) ==
    LET hours == halves \div 7200
        minutes == (halves % 7200) \div 120
        secs == (halves % 120) \div 2
        ms == (halves % 2) * 500
    IN  pad(hours, 2) \o <<":">> \o pad(minutes, 2) \o <<":">> \o pad(secs, 2)
           \o <<",">> \o pad(ms, 3)

Arrow == <<" ", "-", "-", ">", " ">>
Newline == "\n"

\* (the two text lines in the other order)
srtBlockSwapped(index, entry, includeOriginal) ==
    toString(index) \o <<Newline>>
       \o formatSRTTime(entry.startTime) \o Arrow \o formatSRTTime(entry.endTime) \o <<Newline>>
       \o (IF includeOriginal
           THEN entry.translatedText \o <<Newline>> \o entry.text \o <<Newline, Newline>>
           ELSE entry.translatedText \o <<Newline, Newline>>)
\* the body of LLMService.toSRT's loop: what one entry adds to srt
srtBlock(index, entry, includeOriginal) ==
    toString(index) \o <<Newline>>
       \o formatSRTTime(entry.startTime) \o Arrow \o formatSRTTime(entry.endTime) \o <<Newline>>
       \o (IF includeOriginal
           THEN entry.text \o <<Newline>> \o entry.translatedText \o <<Newline, Newline>>
           ELSE entry.translatedText \o <<Newline, Newline>>)

\* the body of ASRService.toSRT's loop
asrBlock(index, entry) ==
    toString(index) \o <<Newline>>
       \o formatSRTTime(entry.startTime) \o Arrow \o formatSRTTime(entry.endTime) \o <<Newline>>
       \o entry.text \o <<Newline, Newline>>

\* LLMService.toSRT: srt = '', index = 1; for each entry: append, index++
RECURSIVE llmToSRT(_, _, _)
llmToSRT(entries, index, includeOriginal) ==
    IF entries = <<>> THEN <<>>
    ELSE srtBlock(index, Head(entries), includeOriginal)
            \o llmToSRT(Tail(entries), index + 1, includeOriginal)

\* ASRService.toSRT
RECURSIVE asrToSRT(_, _)
asrToSRT(entries, index) ==
    IF entries = <<>> THEN <<>>
    ELSE asrBlock(index, Head(entries)) \o asrToSRT(Tail(entries), index + 1)

\* the entries handed to toSRT: times below and above a minute and an hour,
\* texts of one line
SrtTimes == {0, 1, 121, 7321}
SrtEntries ==
    [startTime : SrtTimes, endTime : SrtTimes,
     text : {<<"a">>, <<"b", "c">>}, translatedText : {<<"x">>, <<"y", "z">>}]
SrtInputs ==
    [pc : {"called"},
     entries : UNION {[1..n -> SrtEntries] : n \in 0..MaxEntries},
     includeOriginal : BOOLEAN,
     by : {"none"},
     out : {<<>>}]

AsrToSRT ==
    /\ srt.pc = "called"
    /\ srt' = [srt EXCEPT !.pc = "returned", !.by = "asr", !.out = asrToSRT(srt.entries, 1)]
    /\ UNCHANGED <<taskVars, run, asm, file, fs>>

LlmToSRT ==
    /\ srt.pc = "called"
    /\ srt' = [srt EXCEPT !.pc = "returned", !.by = "llm",
                          !.out = llmToSRT(srt.entries, 1, srt.includeOriginal)]
    /\ UNCHANGED <<taskVars, run, asm, file, fs>>

\* --------------------------------- FFmpegService.combine, calls in parallel
\* The temp workspace shared by the combine calls of different tasks that
\* run at the same time: the directories that exist under this.tempDir, the
\* files in them, and each call's position.  Every await of combine, mixAudio
\* and getVideoInfo is a step.
DirNames == 1..MaxDirs
NoDir == 0

\* (a fixed directory name, whatever exists)
mkdtempFixed(existing) == 1
\* fs.mkdtemp(prefix): creates a directory that did not exist and returns its
\* name; which of the free names it is makes no difference, the first is taken
mkdtemp(existing) ==
    CHOOSE d \in DirNames : d \notin existing /\ \A e \in 1..(d - 1) : e \in existing

NoPath == [dir |-> NoDir, base |-> ""]

InitFs ==
    [pc |-> "running", dirs |-> {}, files |-> {}, clobbered |-> FALSE,
     call |-> [c \in Workers |-> [pc |-> "idle", tempDir |-> NoDir, inner |-> NoDir,
                                   threw |-> FALSE, mixed |-> NoPath, returned |-> NoPath]]]

\* the directories a call is working in, between its mkdtemp and its cleanup
workDirs(c) == {fs.call[c].tempDir, fs.call[c].inner} \ {NoDir}

\* createTempDir by call c, into field "tempDir" or "inner"
fsCreateTempDir(c, field, to) ==
    LET d == mkdtemp(fs.dirs) IN
    [fs EXCEPT !.dirs = @ \cup {d},
               !.call[c] = IF field = "tempDir" THEN [@ EXCEPT !.tempDir = d, !.pc = to]
                           ELSE [@ EXCEPT !.inner = d, !.pc = to]]

\* downloadFile(url, savePath): a temp directory of its own, which stays, then
\* the file is written to savePath
fsDownloadFile(state, dir, base) ==
    [state EXCEPT !.dirs = @ \cup {mkdtemp(state.dirs)},
                  !.files = @ \cup {[dir |-> dir, base |-> base]}]

\* cleanupTempDir(dir) by call c: readdir, unlink every file, rmdir
fsCleanupTempDir(c, dir) ==
    [fs EXCEPT !.dirs = @ \ {dir},
               !.files = {f \in @ : f.dir # dir},
               !.clobbered = @ \/ \E o \in Workers \ {c} : \E f \in fs.files :
                                     f.dir = dir /\ f.dir \in workDirs(o)]

fsFrame == UNCHANGED <<taskVars, run, asm, file, srt>>

CombineCreateTempDir(c) ==
    /\ fs.call[c].pc = "idle"
    /\ Cardinality(fs.dirs) + 2 <= MaxDirs
    /\ fs' = fsCreateTempDir(c, "tempDir", "download")
    /\ fsFrame

\* a step of the try block threw: control goes to the finally block
fsThrows(c) == [fs EXCEPT !.call[c].pc = "cleanup", !.call[c].threw = TRUE]

CombineDownload(c) ==
    /\ fs.call[c].pc = "download"
    /\ Cardinality(fs.dirs) + 2 <= MaxDirs
    /\ \E ok \in BOOLEAN :
         fs' = IF ok
               THEN [fsDownloadFile(fs, fs.call[c].tempDir, "input.mp4")
                       EXCEPT !.call[c].pc = "writeSrt"]
               ELSE [fsThrows(c) EXCEPT !.dirs = @ \cup {mkdtemp(fs.dirs)}]
    /\ fsFrame

CombineWriteSrt(c) ==
    /\ fs.call[c].pc = "writeSrt"
    /\ \E ok \in BOOLEAN :
         fs' = IF ok
               THEN [fs EXCEPT !.files = @ \cup {[dir |-> fs.call[c].tempDir,
                                                  base |-> "subtitles.srt"]},
                               !.call[c].pc = "burn"]
               ELSE fsThrows(c)
    /\ fsFrame

\* burnSubtitlesToVideo: ffmpeg reads the two inputs and writes output.mp4
CombineBurn(c) ==
    /\ fs.call[c].pc = "burn"
    /\ \E ok \in BOOLEAN :
         LET d == fs.call[c].tempDir
             inputs == {[dir |-> d, base |-> "input.mp4"], [dir |-> d, base |-> "subtitles.srt"]}
         IN  fs' = IF ok /\ inputs \subseteq fs.files
                   THEN [fs EXCEPT !.files = @ \cup {[dir |-> d, base |-> "output.mp4"]},
                                   !.call[c].pc = "mix"]
                   ELSE fsThrows(c)
    /\ fsFrame

\* mixAudio / getVideoInfo inside combine: createTempDir
InnerCreateTempDir(c, from, to) ==
    /\ fs.call[c].pc = from
    /\ Cardinality(fs.dirs) + 3 <= MaxDirs
    /\ fs' = fsCreateTempDir(c, "inner", to)
    /\ fsFrame

\* mixAudio's try block: two downloads, then ffmpeg writes mixed.mp4
MixBody(c) ==
    /\ fs.call[c].pc = "mixBody"
    /\ \E ok \in BOOLEAN :
         LET d == fs.call[c].inner
             got == fsDownloadFile(fsDownloadFile(fs, d, "video.mp4"), d, "audio.wav")
         IN  fs' = IF ok
                   THEN [got EXCEPT !.files = @ \cup {[dir |-> d, base |-> "mixed.mp4"]},
                                    !.call[c].pc = "mixCleanup"]
                   ELSE [got EXCEPT !.call[c].pc = "mixCleanup", !.call[c].threw = TRUE]
    /\ fsFrame

\* getVideoInfo's try block: one download, then ffprobe
InfoBody(c) ==
    /\ fs.call[c].pc = "infoBody"
    /\ \E ok \in BOOLEAN :
         LET got == fsDownloadFile(fs, fs.call[c].inner, "video.mp4")
         IN  fs' = IF ok THEN [got EXCEPT !.call[c].pc = "infoCleanup"]
                   ELSE [got EXCEPT !.call[c].pc = "infoCleanup", !.call[c].threw = TRUE]
    /\ fsFrame

\* the finally block of mixAudio / getVideoInfo, then back in combine;
\* mixAudio returns its outputPath, which combine does not keep
InnerCleanup(c, from, to) ==
    /\ fs.call[c].pc = from
    /\ fs' = [fsCleanupTempDir(c, fs.call[c].inner)
                EXCEPT !.call[c].inner = NoDir,
                       !.call[c].pc = IF fs.call[c].threw THEN "cleanup" ELSE to,
                       !.call[c].mixed =
                           IF from = "mixCleanup" /\ ~fs.call[c].threw
                           THEN [dir |-> fs.call[c].inner, base |-> "mixed.mp4"]
                           ELSE @]
    /\ fsFrame

\* the finally block of combine; then the call is over: it rethrows, or
\* returns {videoUrl: outputPath, duration}
CombineCleanup(c) ==
    /\ fs.call[c].pc = "cleanup"
    /\ fs' = [fsCleanupTempDir(c, fs.call[c].tempDir)
                EXCEPT !.call[c].tempDir = NoDir, !.call[c].pc = "done",
                       !.call[c].returned =
                           IF fs.call[c].threw THEN NoPath
                           ELSE [dir |-> fs.call[c].tempDir, base |-> "output.mp4"]]
    /\ fsFrame

\* ------------------------------------------------------------ specification
\* The worksheet holds a prefix of the task ids as Pending rows, authored in
\* the record store with or without an original video; nothing is running.
InitRows ==
    \E n \in 1..MaxTasks : \E video \in [1..n -> BOOLEAN] :
        rows = [i \in Tasks |->
                  IF i <= n THEN [exists |-> TRUE, status |-> PENDING,
                                  original_video |-> video[i],
                                  output_video |-> FALSE]
                  ELSE NoRow]

InitRest ==
    /\ pc = [w \in Workers |-> "idle"]
    /\ kind = [w \in Workers |-> "none"]
    /\ taskId = [w \in Workers |-> NoTask]
    /\ task = [w \in Workers |-> NullTask]
    /\ queue = [w \in Workers |-> <<>>]
    /\ result = [w \in Workers |-> [success |-> 0, failed |-> 0]]
    /\ error = [w \in Workers |-> NoError]
    /\ trace = [w \in Workers |-> <<>>]
    /\ completed = [w \in Workers |-> {}]
    /\ failedStage = [w \in Workers |-> NoError]
    /\ wrote = [w \in Workers |-> <<>>]
    /\ dirs = [w \in Workers |-> {}]
    /\ rpc = "idle" /\ rtask = NoTask /\ rres = "none"
    /\ upc = "idle" /\ utask = NoTask
    /\ retries = [task |-> NoTask, n |-> 0]
    /\ calls = 0

\* no run with data, no assembly, and uploads of a well-formed mp4 file
InitData ==
    /\ run = NoRun
    /\ asm = NoAsm
    /\ file = DefaultFile
    /\ srt = NoSrt
    /\ fs = NoFs

\* HAPClient builds every Task without a retryCount: the constructor gives 0
Init ==
    /\ InitRows
    /\ retryCountOf = [t \in Tasks |-> 0]
    /\ InitRest
    /\ InitData

\* a call arrives while earlier calls may still be running
Concurrently == calls < MaxCalls /\ calls' = calls + 1

\* a call arrives when no other call is running
Quiet ==
    /\ \A w \in Workers : pc[w] = "idle"
    /\ rpc = "idle"
    /\ upc = "idle"
Serially == Quiet /\ UNCHANGED calls

\* the steps of the calls in flight
Step ==
    \/ \E w \in Workers : ProcessTaskGet(w)
    \/ \E w \in Workers : MarkTaskAsRunning(w)
    \/ \E w \in Workers, s \in {"asr", "translate", "tts"} : UpstreamStage(w, s)
    \/ \E w \in Workers : AlignStage(w)
    \/ \E w \in Workers : ComposeStage(w)
    \/ \E w \in Workers : MarkTaskAsSuccess(w)
    \/ \E w \in Workers : MarkTaskAsFailed(w)
    \/ \E w \in Workers : ApiRespond(w)
    \/ \E w \in Workers : ProcessNextPending(w)
    \/ RetryTaskGet
    \/ RetryTaskUpdate
    \/ UploadVideoUpdate

\* at most MaxCalls calls, in any interleaving
Next ==
    \/ \E w \in Workers, id \in Tasks : Concurrently /\ ApiRetryTask(w, id)
    \/ \E w \in Workers : Concurrently /\ ProcessAllPendingTasks(w)
    \/ \E id \in Tasks : Concurrently /\ RetryTaskCall(id)
    \/ Concurrently /\ UploadVideoCreate
    \/ Step

Spec == Init /\ [][Next]_vars

\* any number of calls, one after the other
NextSerial ==
    \/ \E id \in Tasks : Serially /\ ApiRetryTask(1, id)
    \/ Serially /\ ProcessAllPendingTasks(1)
    \/ \E id \in Tasks : Serially /\ RetryTaskCall(id)
    \/ Serially /\ UploadVideoCreate
    \/ Step

SpecSerial == Init /\ [][NextSerial]_vars

\* at most MaxCalls calls, one after the other; every call in flight goes on
\* (each awaited call returns or throws)
NextLive ==
    \/ \E id \in Tasks : Quiet /\ Concurrently /\ ApiRetryTask(1, id)
    \/ Quiet /\ Concurrently /\ ProcessAllPendingTasks(1)
    \/ \E id \in Tasks : Quiet /\ Concurrently /\ RetryTaskCall(id)
    \/ Quiet /\ Concurrently /\ UploadVideoCreate
    \/ Step

SpecLive == Init /\ [][NextLive]_vars /\ WF_vars(Step)

\* one run of processTask with its data, on the one Pending task of the
\* worksheet
InitRun ==
    /\ rows = [i \in Tasks |->
                 IF i = 1 THEN [exists |-> TRUE, status |-> PENDING, original_video |-> TRUE,
                       output_video |-> FALSE]
                 ELSE NoRow]
    /\ retryCountOf = [t \in Tasks |-> 0]
    /\ InitRest
    /\ InitData

NextRun ==
    \/ RunStart
    \/ RunTranscribe
    \/ RunTranslate
    \/ RunSynthesize
    \/ RunAlign
    \/ RunCompose
    \/ RunMarkSuccess
    \/ RunMarkFailed

SpecRun == InitRun /\ [][NextRun]_vars

\* the assembly of one master track
NextAssembly ==
    \/ AssembleStart
    \/ AssembleSegment
    \/ AssembleFinish

SpecAssembly == InitRun /\ [][NextAssembly]_vars

\* uploadVideo calls on an empty worksheet, with any file
InitUpload ==
    /\ rows = [i \in Tasks |-> NoRow]
    /\ retryCountOf = [t \in Tasks |-> 0]
    /\ InitRest
    /\ run = NoRun
    /\ asm = NoAsm
    /\ srt = NoSrt
    /\ fs = NoFs
    /\ file \in Files

NextUpload ==
    \/ Serially /\ UploadVideoCreate
    \/ Serially /\ UploadVideoReject
    \/ UploadVideoUpdate

SpecUpload == InitUpload /\ [][NextUpload]_vars

\* toSRT on any list of entries
InitSrt ==
    /\ rows = [i \in Tasks |-> NoRow]
    /\ retryCountOf = [t \in Tasks |-> 0]
    /\ InitRest
    /\ run = NoRun
    /\ asm = NoAsm
    /\ file = DefaultFile
    /\ fs = NoFs
    /\ srt \in SrtInputs

NextSrt ==
    \/ AsrToSRT
    \/ LlmToSRT

SpecSrt == InitSrt /\ [][NextSrt]_vars

\* one combine call per worker, for different tasks, at the same time
InitCompose ==
    /\ rows = [i \in Tasks |-> NoRow]
    /\ retryCountOf = [t \in Tasks |-> 0]
    /\ InitRest
    /\ run = NoRun
    /\ asm = NoAsm
    /\ file = DefaultFile
    /\ srt = NoSrt
    /\ fs = InitFs

NextCompose ==
    \/ \E c \in Workers : CombineCreateTempDir(c)
    \/ \E c \in Workers : CombineDownload(c)
    \/ \E c \in Workers : CombineWriteSrt(c)
    \/ \E c \in Workers : CombineBurn(c)
    \/ \E c \in Workers : InnerCreateTempDir(c, "mix", "mixBody")
    \/ \E c \in Workers : MixBody(c)
    \/ \E c \in Workers : InnerCleanup(c, "mixCleanup", "info")
    \/ \E c \in Workers : InnerCreateTempDir(c, "info", "infoBody")
    \/ \E c \in Workers : InfoBody(c)
    \/ \E c \in Workers : InnerCleanup(c, "infoCleanup", "cleanup")
    \/ \E c \in Workers : CombineCleanup(c)

SpecCompose == InitCompose /\ [][NextCompose]_vars

\* TaskServiceImpl.retryTask over any IHAPClient: the Task that getTask returns
\* may carry any status and any retryCount (Task's constructor takes both
\* from its TaskData)
InitEntity ==
    /\ rows \in [Tasks -> {[exists |-> TRUE, status |-> st, original_video |-> FALSE,
          output_video |-> FALSE] :
                            st \in TaskStatus}]
    /\ retryCountOf \in [Tasks -> 0..MaxRetryCount]
    /\ InitRest
    /\ InitData

NextEntity ==
    \/ \E id \in Tasks : Serially /\ RetryTaskCall(id)
    \/ RetryTaskGet
    \/ RetryTaskUpdate

SpecEntity == InitEntity /\ [][NextEntity]_vars

\* ------------------------------------------------------------------ claims
Range(f) == {f[i] : i \in DOMAIN f}
Stored(t) == rows[t].status
Stages == {"asr", "translate", "tts", "align", "compose"}

\* C1: Success is terminal: once a task's stored status is Success, no step of
\* any operation, in any interleaving, changes it again.
C1_SuccessIsTerminal ==
    [][\A t \in Tasks : Stored(t) = SUCCESS => rows'[t].status = SUCCESS]_vars

\* C2: every change of a task's stored status is one of the four edges
\* Pending->Running, Running->Success, Running->Failed, Failed->Pending.
FourEdges == {<<PENDING, RUNNING>>, <<RUNNING, SUCCESS>>, <<RUNNING, FAILED>>,
              <<FAILED, PENDING>>}
C2_OnlyFourEdges ==
    [][\A t \in Tasks :
         (rows[t].exists /\ rows'[t].status # Stored(t))
            => <<Stored(t), rows'[t].status>> \in FourEdges]_vars

\* C3: when a stage of a run has failed and the run is over, no later stage
\* was started in that run, the run never wrote Success, and it has set the
\* stored status to Failed.
C3_StageFailureFailsTask ==
    \A w \in Workers :
        (pc[w] = "threw" /\ failedStage[w] \in Stages)
           => /\ Range(trace[w]) \cap Stages \subseteq completed[w] \cup {failedStage[w]}
              /\ "markSuccess" \notin Range(trace[w])
              /\ SUCCESS \notin Range(wrote[w])
              /\ FAILED \in Range(wrote[w])

\* C4: in every run the steps start in the order mark Running, transcription,
\* translation, synthesis, speed alignment, composition, mark Success; a step
\* starts only after every step before it has returned, and Success is written
\* only after composition has returned.
StepOrder == <<"markRunning", "asr", "translate", "tts", "align", "compose", "markSuccess">>
Started(w) ==
    IF trace[w] # <<>> /\ trace[w][Len(trace[w])] = "markFailed"
    THEN SubSeq(trace[w], 1, Len(trace[w]) - 1)
    ELSE trace[w]
C4_FixedStepOrder ==
    \A w \in Workers :
        /\ Len(Started(w)) <= Len(StepOrder)
        /\ Started(w) = SubSeq(StepOrder, 1, Len(Started(w)))
        /\ \A i \in 1..(Len(Started(w)) - 1) : Started(w)[i] \in completed[w]
        /\ completed[w] \subseteq Range(Started(w))
        /\ SUCCESS \in Range(wrote[w]) => "compose" \in completed[w]
C4_Witness ==
    \E w \in Workers :
        /\ pc[w] = "returned"
        /\ Started(w) = StepOrder
        /\ SUCCESS \in Range(wrote[w])

\* C5: retryTask passes its check and goes on to write Pending
\* exactly when the task it read is Failed with retryCount 0, 1 or 2; the write
\* sets the status to Pending unless the record store rejects it; in every
\* other case (retryCount 3 or more, not Failed, a failed read or write)
\* retryTask ends with an error and the stored status is unchanged.
C5_RetryDecision ==
    [][/\ (rpc = "getTask" /\ rpc' # "getTask")
            => /\ rows' = rows
               /\ (rpc' = "update")
                    <=> /\ rres' # "notFound"
                        /\ Stored(rtask) = FAILED
                        /\ retryCountOf[rtask] \in {0, 1, 2}
               /\ rpc' = "idle" => rres' \in {"notFound", "cannotRetry"}
       /\ (rpc = "update" /\ rpc' # "update")
            => IF rres' = "scheduled"
               THEN rows' = [rows EXCEPT ![rtask].status = PENDING]
               ELSE rres' = "updateFailed" /\ rows' = rows]_vars
C5_Witness ==
    /\ rpc = "idle" /\ rres = "scheduled"
    /\ retryCountOf[rtask] = 2
    /\ Stored(rtask) = PENDING
\* C5 as stated: a retryTask call on a task that is Failed with retryCount
\* 0, 1 or 2 ends with the status Pending; any other call leaves the status.
C5_AsStated ==
    [][(rpc # "idle" /\ rpc' = "idle")
          => IF Stored(rtask) = FAILED /\ retryCountOf[rtask] \in {0, 1, 2}
             THEN rows'[rtask].status = PENDING
             ELSE rows' = rows]_vars

\* C6: the accepted retries of one task never exceed 3.
C6_RetriesCapped == retries.n <= RetryLimit

\* C7: when the task API's retry request ends on a task it found Failed with
\* retryCount < 3, the request has moved the task back to Pending.
C7_ApiRetryReentersPending ==
    \A w \in Workers :
        (kind[w] = "api" /\ pc[w] \in Ended /\ task[w].found
            /\ task[w].status = FAILED /\ task[w].retryCount < RetryLimit)
           => PENDING \in Range(wrote[w])

\* C8: every task whose stored status is Running eventually has stored status
\* Success or Failed, when every call in flight eventually returns or throws.
C8_RunningIsLeft ==
    \A t \in Tasks :
        (rows[t].exists /\ Stored(t) = RUNNING) ~> (Stored(t) \in {SUCCESS, FAILED})

\* C9: when a stage of a run has failed and the run has set the status to
\* Failed, the task read back from the record store carries the error message
\* of that failure.
C9_ErrorMessageStored ==
    \A w \in Workers :
        (pc[w] = "threw" /\ failedStage[w] \in Stages
            /\ FAILED \in Range(wrote[w]) /\ Stored(taskId[w]) = FAILED)
           => getTask(taskId[w], TRUE).errorMessage = error[w]

\* C10: when an FFmpegService call has returned or thrown, no temp directory
\* created during the call exists any more.
C10_TempDirsReleased ==
    \A w \in Workers : dirs[w] = {}

\* C11: a failure of temp-directory cleanup never changes the outcome of a run:
\* a run in which anything but a cleanup failed ends Failed with that first
\* error as the error it throws, and a run in which nothing but cleanups
\* failed ends Success.
C11_CleanupNeverChangesOutcome ==
    run.pc \in Ended
       => IF run.primary = NoError
          THEN run.status = SUCCESS
          ELSE run.status = FAILED /\ run.error = run.primary

\* a segment list sorted by startTime, every entry with endTime > startTime
SortedSegments(subs) ==
    /\ subs # <<>>
    /\ \A i \in 1..Len(subs) : subs[i].endTime > subs[i].startTime
    /\ \A i \in 1..(Len(subs) - 1) : subs[i].startTime <= subs[i + 1].startTime

\* the distance between the fraction q and the whole number n is at most one
WithinOne(q, n) ==
    /\ q.den > 0
    /\ q.num - n * q.den <= q.den
    /\ n * q.den - q.num <= q.den

\* C12: for every segment list sorted by startTime with endTime > startTime,
\* the audio track handed to composition lasts, within one sample frame (the
\* unit of time here), the last segment's startTime plus that segment's
\* aligned duration (endTime - startTime): the gaps before and between the
\* segments are part of the track.
C12_TrackSpansTimeline ==
    (run.pc = "compose" /\ SortedSegments(run.subtitles))
       => WithinOne(run.track, run.subtitles[Len(run.subtitles)].endTime)

\* C13: after any number of segments assembled by the assembly steps, the
\* track duration bufferLength / bytesPerFrame / sampleRate equals the write
\* cursor within one frame.
C13_TrackMatchesCursor ==
    asm.segments > 0
       => LET trackTicks == (asm.bufferLength \div bytesPerFrame(asm.format)) * TicksPerFrame
          IN  /\ trackTicks - asm.writeCursor <= TicksPerFrame
              /\ asm.writeCursor - trackTicks <= TicksPerFrame

\* the write cursor before segment i: 0 before the first, and after a segment
\* its startTime plus its aligned duration, which is its endTime
cursorBefore(subs, i) == IF i = 1 THEN 0 ELSE subs[i - 1].endTime

\* some segment starts earlier than the write cursor by more than the tolerance
BackwardOverlap(subs) ==
    \E i \in 1..Len(subs) : subs[i].startTime < cursorBefore(subs, i) - Epsilon

\* the aligned audio was produced: the run got as far as composition
AlignReturned == run.pc \in {"compose", "markSuccess", "returned"} \/ run.failedStage = "compose"

\* C14: TimelineOrderError is raised if and only if some segment's startTime
\* is earlier than the write cursor by more than the tolerance (so not when
\* the gap is exactly 0), and when it is raised the run fails: a track with
\* such a segment never reaches composition.
C14_TimelineOrderError ==
    /\ AlignReturned => ~BackwardOverlap(run.subtitles)
    /\ run.pc \in Ended =>
          /\ run.error = "TimelineOrderError" => BackwardOverlap(run.subtitles)
          /\ run.error = "TimelineOrderError" => run.status = FAILED

\* the invocations of the stretch primitive (ffmpeg with -atempo, in the temp
\* directory of adjustAudioSpeed) among those of the last FFmpegService call
StretchCalls ==
    {i \in 1..Len(run.tool) :
        run.tool[i].name = "ffmpeg" /\ run.tool[i].paths[1].dir = tempDirOf("adjust")}

\* C15: for every clip duration and every target duration greater than 0,
\* every ratio adjustAudioSpeed hands to the stretch primitive lies in
\* [0.5, 2.0], also when the overall ratio is extreme.
C15_StageRatiosInRange ==
    (run.clip > 0 /\ run.target > 0)
       => \A i \in StretchCalls : InRange(run.tool[i].ratio)

\* C16: aligning a clip to a target duration D > 0 yields an output of
\* duration D for any input ratio: the stretch never fails on the ratio, and
\* the stages applied divide the clip's duration down to exactly D.
C16_AlignedToTarget ==
    (run.clip > 0 /\ run.target > 0)
       => /\ run.primary # "ffmpeg failed: tempo out of range"
          /\ run.pc = "compose" => run.track.num = run.target * run.track.den

\* an entry with endTime <= startTime, or entries not in ascending time order
InvalidTimeline(subs) ==
    \/ \E i \in 1..Len(subs) : subs[i].endTime <= subs[i].startTime
    \/ \E i \in 1..(Len(subs) - 1) : subs[i + 1].startTime < subs[i].startTime

\* synthesis, speed alignment or composition has been invoked in this run
SynthesisInvoked ==
    \/ run.pc \in {"align", "compose", "markSuccess", "returned"}
    \/ run.failedStage \in {"tts", "align", "compose"}

\* C17: when the transcription output has an entry with endTime <= startTime
\* or entries out of ascending time order, the run fails before synthesis,
\* speed alignment or composition is invoked.
C17_InvalidTimelineRejected ==
    InvalidTimeline(run.subtitles) => ~SynthesisInvoked

\* C18: an upstream call that fails transiently on its first two attempts
\* and would succeed on the third returns the success result, so the run does
\* not fail on it; a call failing on all 3 attempts raises an error; no call
\* is attempted more than 3 times.
C18_ThreeAttempts ==
    /\ run.attempts <= 3
    /\ run.failedStage \in {"asr", "translate", "tts"} => run.withheld >= 3

\* a type is on the allow-list when it is one of its entries, as a mime type
\* or as the extension of one ("mp4" for "video/mp4")
OnAllowList(type) ==
    \E i \in 1..Len(allowedVideoTypes) :
        \/ allowedVideoTypes[i] = type
        \/ allowedVideoTypes[i] = <<"v", "i", "d", "e", "o", "/">> \o type

\* C19: uploadVideo rejects, before any task is created, every file whose
\* size exceeds the configured maximum and every file whose extension and
\* mime type are both not on the configured allow-list.
C19_InvalidFileRejected ==
    (\/ file.size > maxFileSize
     \/ /\ ~OnAllowList(toLowerCase(afterLastDot(file.name)))
        /\ ~OnAllowList(file.mimeType))
       => /\ upc # "created"
          /\ \A t \in Tasks : ~rows[t].exists

\* the invocations of the render tool by combine (ffmpeg with the subtitle
\* file) among those of the last FFmpegService call
RenderCalls ==
    {i \in 1..Len(run.tool) :
        /\ run.tool[i].name = "ffmpeg"
        /\ \E j \in 1..Len(run.tool[i].paths) : run.tool[i].paths[j].base = "subtitles.srt"}

\* C20: every input, subtitle and output path combine passes to the render
\* tool is a basename relative to the task's working directory (no directory
\* part, so never an absolute path), and the tool runs with that directory as
\* its working directory.
C20_RelativePathsInWorkDir ==
    \A i \in RenderCalls :
        /\ run.tool[i].cwd = tempDirOf("combine")
        /\ \A j \in 1..Len(run.tool[i].paths) : run.tool[i].paths[j].dir = ""

\* the lines of a text: the pieces between its newlines (the last piece, after
\* the final newline, included)
RECURSIVE lines(_)
lines(str) ==
    IF \A i \in 1..Len(str) : str[i] # Newline THEN <<str>>
    ELSE LET k == CHOOSE i \in 1..Len(str) :
                      str[i] = Newline /\ \A j \in 1..(i - 1) : str[j] # Newline
         IN  <<SubSeq(str, 1, k - 1)>> \o lines(SubSeq(str, k + 1, Len(str)))

\* the number a string of digits denotes
RECURSIVE parseInt(_)
parseInt(str) ==
    IF str = <<>> THEN 0
    ELSE 10 * parseInt(SubSeq(str, 1, Len(str) - 1))
            + ((CHOOSE d \in 1..10 : Digits[d] = str[Len(str)]) - 1)

\* the time, in half seconds, that HH:MM:SS,mmm denotes
parseSRTTime(str) ==
    7200 * parseInt(SubSeq(str, 1, 2)) + 120 * parseInt(SubSeq(str, 4, 5))
       + 2 * parseInt(SubSeq(str, 7, 8)) + parseInt(SubSeq(str, 10, 12)) \div 500

\* the lines one block has: index, times, text line(s), blank separator
BlockLines == IF srt.by = "llm" /\ srt.includeOriginal THEN 5 ELSE 4

\* C21: toSRT emits exactly one block per entry, in input order, with index
\* lines 1, 2, ..., n, each block carrying that entry's own start and end
\* time; in bilingual mode the original-language line comes immediately
\* before the target-language line, followed by the blank separator.
C21_OneBlockPerEntry ==
    srt.pc = "returned" =>
       LET L == lines(srt.out)
           n == Len(srt.entries)
           k == BlockLines
       IN  /\ Len(L) = k * n + 1
           /\ L[k * n + 1] = <<>>
           /\ \A i \in 1..n :
                LET b == k * (i - 1)
                    e == srt.entries[i]
                IN  /\ L[b + 1] = toString(i)
                    /\ Len(L[b + 2]) = 29
                    /\ parseSRTTime(SubSeq(L[b + 2], 1, 12)) = e.startTime
                    /\ SubSeq(L[b + 2], 13, 17) = Arrow
                    /\ parseSRTTime(SubSeq(L[b + 2], 18, 29)) = e.endTime
                    /\ IF srt.by = "asr" THEN L[b + 3] = e.text
                       ELSE IF srt.includeOriginal
                       THEN L[b + 3] = e.text /\ L[b + 4] = e.translatedText
                       ELSE L[b + 3] = e.translatedText
                    /\ L[b + k] = <<>>

\* a bilingual document of at least two entries whose times differ has been emitted
C21_Witness ==
    /\ srt.pc = "returned"
    /\ srt.by = "llm"
    /\ srt.includeOriginal
    /\ Len(srt.entries) = 2
    /\ srt.entries[1].startTime # srt.entries[2].startTime
    /\ srt.entries[2].endTime = 7321

\* C22: retry is manual only: processTask (called directly or by
\* processAllPendingTasks) never starts the stages of a task whose stored
\* status is Failed; only an explicit retry, moving it back to Pending, lets
\* it run again.
C22_FailedNeverRunAgain ==
    [][\A w \in Workers :
          (pc[w] = "markRunning" /\ pc'[w] = "asr") => Stored(taskId[w]) # FAILED]_vars

\* C23: working directories are never shared: no two combine calls that run
\* at the same time work in the same directory, and no cleanup deletes a file
\* in a directory another call is still working in.
C23_WorkDirsNotShared ==
    fs.pc = "running" =>
       /\ \A c, o \in Workers : c # o => workDirs(c) \cap workDirs(o) = {}
       /\ ~fs.clobbered

\* one call has cleaned up and is over while the other, in a directory of
\* its own, still has its downloaded input to burn
C23_Witness ==
    /\ fs.pc = "running"
    /\ \E c, o \in Workers :
         /\ fs.call[c].pc = "done"
         /\ fs.call[o].pc = "burn"
         /\ [dir |-> fs.call[o].tempDir, base |-> "input.mp4"] \in fs.files

\* a call that has marked its task Running and is executing the stages
Executing(w) == pc[w] \in Stages /\ RUNNING \in Range(wrote[w])

\* C24: at most one run of the pipeline is active for a task at any time: of
\* two processTask calls made concurrently for the same Pending task, at most
\* one marks it Running and executes the stages.
C24_OneRunPerTask ==
    \A w, v \in Workers :
        (w # v /\ Executing(w) /\ Executing(v)) => taskId[w] # taskId[v]

\* C25: the file path an FFmpegService call returns refers to a file that
\* still exists when the caller receives it: it is never inside a directory
\* the same call has already deleted.
C25_ReturnedFileExists ==
    fs.pc = "running" =>
       \A c \in Workers :
          (fs.call[c].pc = "done" /\ fs.call[c].returned # NoPath)
             => fs.call[c].returned \in fs.files

\* C26: when combine is called with an audio option, the video it returns is
\* the output of the audio step, not the subtitle-only video made before it.
C26_ReturnsMixedVideo ==
    fs.pc = "running" =>
       \A c \in Workers :
          (fs.call[c].pc = "done" /\ fs.call[c].returned # NoPath)
             => fs.call[c].returned = fs.call[c].mixed

\* C27: after uploadVideo succeeds, the created task is Pending and its stored
\* original-video reference is the uploaded file (so that a following
\* processTask passes the original-video check).
C27_UploadStoresVideo ==
    [][(upc = "created" /\ upc' = "idle" /\ rows'[utask].status = PENDING)
          => rows'[utask].original_video]_vars

\* C28: every task whose stored status is Success has its output-video
\* reference recorded in its row.
C28_SuccessHasOutputVideo ==
    \A t \in Tasks :
        (rows[t].exists /\ rows[t].status = SUCCESS) => rows[t].output_video

\* C29: processAllPendingTasks starts from zero counts with the listed tasks
\* in the listed order, takes them one by one, counts every attempt once,
\* whether it returned or threw, and counts as success exactly the attempts
\* in which this call wrote status Success.
C29_CountsAttempts ==
    [][\A w \in Workers :
         /\ (pc[w] = "idle" /\ kind'[w] = "cron")
               => /\ <<taskId'[w]>> \o queue'[w] = getTasks
                  /\ result'[w] = [success |-> 0, failed |-> 0]
         /\ (kind[w] = "cron" /\ pc[w] \in Ended /\ pc'[w] # pc[w])
               => /\ result'[w].success + result'[w].failed
                       = result[w].success + result[w].failed + 1
                  /\ (result'[w].success = result[w].success + 1)
                       <=> (SUCCESS \in Range(wrote[w]))
                  /\ queue[w] # <<>> =>
                       (taskId'[w] = Head(queue[w]) /\ queue'[w] = Tail(queue[w]))
                  /\ queue[w] = <<>> => pc'[w] = "idle"]_vars

\* the step in which processTask of worker w has read (or failed to read) a
\* stored task whose status is not Pending
ReadsNonPending(w) ==
    /\ pc[w] = "getTask"
    /\ pc'[w] # "getTask"
    /\ rows[taskId[w]].exists
    /\ Stored(taskId[w]) # PENDING

\* C30: processTask on a task whose stored status is not Pending invokes no
\* stage and writes nothing to the record store, so the row is unchanged; it
\* returns without an error when getTask gives the task, and throws "Task not
\* found" when getTask gives null.
C30_NonPendingIsSkipped ==
    [][\A w \in Workers :
         ReadsNonPending(w)
           => /\ rows' = rows
              /\ trace'[w] = <<>>
              /\ completed'[w] = {}
              /\ wrote'[w] = <<>>
              /\ \/ pc'[w] = "returned" /\ task'[w].found /\ error'[w] = NoError
                 \/ pc'[w] = "threw" /\ ~task'[w].found
                      /\ error'[w] = "Task not found"]_vars

\* a processTask call that has returned after reading its task as Failed
C30_Witness ==
    \E w \in Workers :
        /\ pc[w] = "returned"
        /\ task[w].found
        /\ task[w].status = FAILED
        /\ Stored(taskId[w]) = FAILED
        /\ wrote[w] = <<>>

\* C30 as stated: processTask on a task whose stored status is not Pending
\* returns without an error
C30_AsStated ==
    [][\A w \in Workers : ReadsNonPending(w) => pc'[w] = "returned"]_vars

====
